---- MODULE Spec2Model ----
(***************************************************************************)
(* A model of the chaining hash map of include/HashMaps/chainHashingMap.h: *)
(* _chainHashingMapT over its two bucket strategies, PlainHashBucketT (an  *)
(* inner plain hash table per bucket) and LinkedListBucketT (a sentinel    *)
(* headed singly linked list per bucket).                                  *)
(*                                                                         *)
(* plainHashMap.h (BaseHashFunction, _baseExpandiblePlainMapT) and         *)
(* linkedListHelpers.h (cloneList, cleanList) are not part of the sources  *)
(* at hand; the definitions that stand for them are marked below.          *)
(***************************************************************************)
EXTENDS Integers, Sequences, FiniteSets

\* ------------------------------------------------------------------ bounds

\* Keys are 1..MaxKey.
MaxKey == 2

\* Items are 1..MaxItem; 0 stands for the value-initialised ItemT{}.
MaxItem == 2

\* The map is constructed with a size in 1..MaxInitSize.
MaxInitSize == 2

\* No operation is started that would grow the bucket array beyond this.
MaxBuckets == 4

\* Number of members of the hash family a generator draw selects from.
HashFamilySize == 2

\* size_t arithmetic is modular; the modulus 2^w is scaled down to 2^16 so
\* that a wrapped counter is still a number the model checker can hold.
SizeTModulus == 65536

\* A counter that has wrapped below zero is not decremented further than
\* this many steps.
MaxWrap == 1

Keys == 1..MaxKey
Items == 1..MaxItem
DefaultItem == 0

\* ------------------------------------------------- program constants

DefaultBucketSize == 4
DefaultResizeCoef == 2
StartResizeTrehsold == 2
INT_MAX == 2147483647
DefaultRehashPolicy == [num |-> 1, den |-> 1]

\* The ratios accessRehashPolicy() is used to store, and rehash() is called
\* with: 0.5 and 1.0.
Policies == {[num |-> 1, den |-> 2], [num |-> 1, den |-> 1]}

\* ++x and --x on a size_t.
Inc(x) == (x + 1) % SizeTModulus
Dec(x) == (x + SizeTModulus - 1) % SizeTModulus

\* The counter values the model follows: those not wrapped, and the first
\* MaxWrap below zero.
Followed(x) == x < SizeTModulus \div 2 \/ x >= SizeTModulus - MaxWrap

\* static_cast<size_t>(size * policy) for the ratios above.
Threshold(size, policy) == (size * policy.num) \div policy.den

\* ------------------------------------------------------- hash functions
\* BaseHashFunction (plainHashMap.h): a member of a universal family, drawn
\* by the constructor from a pseudo random generator, that maps a key into
\* [0, size).  The generator is the variable rng; a draw returns its value
\* and advances it.

HashPrime == 5

NextRng(r) == (r + 1) % HashFamilySize

HashFuncT(size, r) == [d |-> r, n |-> size]

Hash(hf, key) == ((((1 + 3 * hf.d) % HashPrime) * key + hf.d) % HashPrime) % hf.n

\* ---------------------------------------------------- sequence helpers

RemoveAt(s, i) == SubSeq(s, 1, i - 1) \o SubSeq(s, i + 1, Len(s))

\* ------------------------------------------------------ LinkedListBucketT
\* A bucket is [_elemCount, list]: list holds the nodes after the sentinel
\* _root, first node first; a node is [_key, _item].

NewChainBucket == [_elemCount |-> 0, list |-> <<>>]

\* linkedListHelpers.h: a copy of the list, node for node.
cloneList(list) == list

ChainIndexOf(b, key) ==
    IF \E i \in 1..Len(b.list) : b.list[i]._key = key
    THEN CHOOSE i \in 1..Len(b.list) :
            /\ b.list[i]._key = key
            /\ \A j \in 1..(i - 1) : b.list[j]._key # key
    ELSE 0

ChainSearch(b, key) == ChainIndexOf(b, key) # 0

\* Mutant: an insert that overwrites the item of a key already in the list.
ChainInsertOverwrite(b, key, item) ==
    IF ChainIndexOf(b, key) # 0
    THEN [ok |-> FALSE, b |-> [b EXCEPT !.list[ChainIndexOf(b, key)]._item = item]]
    ELSE [ok |-> TRUE,
          b  |-> [_elemCount |-> Inc(b._elemCount),
                  list |-> <<[_key |-> key, _item |-> item]>> \o b.list]]

ChainInsert(b, key, item) ==
    IF ChainIndexOf(b, key) # 0
    THEN [ok |-> FALSE, b |-> b]
    ELSE [ok |-> TRUE,
          b  |-> [_elemCount |-> Inc(b._elemCount),
                  list |-> <<[_key |-> key, _item |-> item]>> \o b.list]]

\* Mutant: a safeRemove that unlinks the first node of the list instead of
\* the node it found.
ChainSafeRemoveFirst(b, key) ==
    IF ChainIndexOf(b, key) # 0
    THEN [ub |-> FALSE, ok |-> TRUE,
          b  |-> [_elemCount |-> Dec(b._elemCount), list |-> RemoveAt(b.list, 1)]]
    ELSE [ub |-> TRUE, ok |-> FALSE, b |-> b]

\* The walk stops only at a node whose key compares equal: its loop
\* condition is the address of a member, which is never null.  For a key
\* that is in the list the node is unlinked and deleted.  For a key that is
\* not, the walk reads the key of the node after the last one through a
\* null pointer; ub marks that call, and what it leaves behind is chosen by
\* the caller among ChainUBOutcomes.
ChainSafeRemove(b, key) ==
    LET i == ChainIndexOf(b, key) IN
    IF i # 0
    THEN [ub |-> FALSE, ok |-> TRUE,
          b  |-> [_elemCount |-> Dec(b._elemCount), list |-> RemoveAt(b.list, i)]]
    ELSE [ub |-> TRUE, ok |-> FALSE, b |-> b]

\* What the read through the null pointer can lead to: the value read
\* compares unequal and the walk ends (FALSE, nothing changed), or it
\* compares equal and the unlink path runs on the null node (TRUE, the
\* count decremented).  A trap is the third outcome; it ends the program.
ChainUBOutcomes(b) ==
    { [ok |-> FALSE, b |-> b],
      [ok |-> TRUE,  b |-> [b EXCEPT !._elemCount = Dec(b._elemCount)]] }

ChainSafeGet(b, key) ==
    LET i == ChainIndexOf(b, key) IN
    IF i # 0
    THEN [item |-> b.list[i]._item, b |-> b]
    ELSE [item |-> DefaultItem,
          b    |-> [_elemCount |-> Inc(b._elemCount),
                    list |-> <<[_key |-> key, _item |-> DefaultItem]>> \o b.list]]

ChainGet(b, key) == ChainSafeGet(b, key)

ChainRemove(b, key) == ChainSafeRemove(b, key)

ChainDetachFirst(b) == [n |-> Head(b.list), b |-> [b EXCEPT !.list = Tail(b.list)]]

\* Mutant: an _attachFirst that does not set n->next, so the nodes that
\* were in the list are no longer reachable.
ChainAttachFirstUnlinked(b, n) ==
    [_elemCount |-> Inc(b._elemCount), list |-> <<n>>]

\* Mutant: an _attachFirst that links the node and leaves _elemCount as it
\* is.
ChainAttachFirstUncounted(b, n) ==
    [_elemCount |-> b._elemCount, list |-> <<n>> \o b.list]

ChainAttachFirst(b, n) ==
    [_elemCount |-> Inc(b._elemCount), list |-> <<n>> \o b.list]

\* The copy constructor, which hands a bucket to a by-value parameter or
\* return value.
ChainCopy(b) == [_elemCount |-> b._elemCount, list |-> cloneList(b.list)]

\* The inner loop of reorganizeBuckets on old bucket bi, from iteration i
\* on.  st is [old, new, used, ub]; ub is set when _detachFirst is called on
\* a list that holds no node (it reads n->next through a null pointer).
RECURSIVE ChainMoveNodes(_, _, _, _)
ChainMoveNodes(st, bi, i, nFunc) ==
    IF st.ub \/ i >= st.old[bi]._elemCount
    THEN st
    ELSE IF st.old[bi].list = <<>>
    THEN [st EXCEPT !.ub = TRUE]
    ELSE LET Attached(det, h, nb) ==
                 [old  |-> [st.old EXCEPT ![bi] = det.b],
                  new  |-> [st.new EXCEPT ![h] = nb],
                  used |-> st.used + (IF nb._elemCount = 1 THEN 1 ELSE 0),
                  ub   |-> FALSE]
             Attach(det, h) == Attached(det, h, ChainAttachFirst(st.new[h], det.n))
             Detached(det) == Attach(det, Hash(nFunc, det.n._key) + 1)
         IN ChainMoveNodes(Detached(ChainDetachFirst(st.old[bi])), bi, i + 1, nFunc)

\* The outer loop of reorganizeBuckets, from old bucket bi on.
RECURSIVE ChainMoveBuckets(_, _, _)
ChainMoveBuckets(st, bi, nFunc) ==
    IF st.ub \/ bi > Len(st.old)
    THEN st
    ELSE ChainMoveBuckets(ChainMoveNodes(st, bi, 0, nFunc), bi + 1, nFunc)

\* LinkedListBucketT::reorganizeBuckets.  The result also shows old, the
\* by-value parameter as the call leaves it.
ChainReorganizeBuckets(oldBuckets, nSize, nFunc) ==
    LET Return(st) == [buckets |-> [i \in 1..nSize |-> ChainCopy(st.new[i])],
                       used    |-> st.used,
                       old     |-> st.old,
                       ub      |-> st.ub]
    IN Return(ChainMoveBuckets(
                  [old  |-> oldBuckets,
                   new  |-> [i \in 1..nSize |-> NewChainBucket],
                   used |-> 0,
                   ub   |-> FALSE],
                  1, nFunc))

\* ----------------------------------------------- _baseExpandiblePlainMapT
\* plainHashMap.h: the table inside a PlainHashBucketT.  It is
\* [hf, keys, items, occup], three arrays of the table's size and the hash
\* function that gives every key its one slot.  The table never compares
\* keys: PlainHashBucketT applies the comparer itself to the key found in
\* the slot.

PlainNew(size, r) ==
    [hf    |-> HashFuncT(size, r),
     keys  |-> [i \in 1..size |-> 0],
     items |-> [i \in 1..size |-> DefaultItem],
     occup |-> [i \in 1..size |-> FALSE]]

PlainGetSize(m) == Len(m.occup)

PlainSlot(m, key) == Hash(m.hf, key) + 1

PlainSearchAndSave(m, key) == m.occup[PlainSlot(m, key)]

PlainGetLastSearchedKey(m, key) == m.keys[PlainSlot(m, key)]

PlainGetLastSearched(m, key) == m.items[PlainSlot(m, key)]

PlainIndex(m, key) == m.items[PlainSlot(m, key)]

PlainInsert(m, key, item) ==
    LET s == PlainSlot(m, key) IN
    IF m.occup[s]
    THEN [ok |-> FALSE, m |-> m]
    ELSE [ok |-> TRUE,
          m  |-> [m EXCEPT !.keys[s] = key, !.items[s] = item, !.occup[s] = TRUE]]

PlainRemove(m, key) ==
    LET s == PlainSlot(m, key) IN
    [m EXCEPT !.keys[s] = 0, !.items[s] = DefaultItem, !.occup[s] = FALSE]

\* Whether hf gives the entries of m pairwise different slots.
PlainFits(m, hf) ==
    \A i, j \in 1..Len(m.occup) :
        (m.occup[i] /\ m.occup[j] /\ i # j) => Hash(hf, m.keys[i]) # Hash(hf, m.keys[j])

\* The table of size hf.n that holds the entries of m where hf puts them.
PlainPlaced(m, hf) ==
    LET has(s) == \E i \in 1..Len(m.occup) : m.occup[i] /\ Hash(hf, m.keys[i]) + 1 = s
        src(s) == CHOOSE i \in 1..Len(m.occup) : m.occup[i] /\ Hash(hf, m.keys[i]) + 1 = s
    IN [hf    |-> hf,
        keys  |-> [s \in 1..hf.n |-> IF has(s) THEN m.keys[src(s)] ELSE 0],
        items |-> [s \in 1..hf.n |-> IF has(s) THEN m.items[src(s)] ELSE DefaultItem],
        occup |-> [s \in 1..hf.n |-> has(s)]]

\* resize(nSize, maxTries): up to maxTries draws of a hash function for
\* nSize; the first that fits the entries is taken, and the table is left
\* as it was when none of them does.
RECURSIVE PlainResizeTry(_, _, _, _)
PlainResizeTry(m, nSize, tries, r) ==
    IF tries = 0
    THEN [ok |-> FALSE, m |-> m, rng |-> r]
    ELSE IF PlainFits(m, HashFuncT(nSize, r))
    THEN [ok |-> TRUE, m |-> PlainPlaced(m, HashFuncT(nSize, r)), rng |-> NextRng(r)]
    ELSE PlainResizeTry(m, nSize, tries - 1, NextRng(r))

\* The generator has period HashFamilySize: when no member of the family
\* fits, all maxTries draws fail.
PlainResize(m, nSize, maxTries, r) ==
    IF \A d \in 0..(HashFamilySize - 1) : ~PlainFits(m, HashFuncT(nSize, d))
    THEN [ok |-> FALSE, m |-> m, rng |-> (r + maxTries) % HashFamilySize]
    ELSE PlainResizeTry(m, nSize, maxTries, r)

\* ------------------------------------------------------- PlainHashBucketT
\* A bucket is [_elemCount, _nextResize, _map].

NewProbeBucket(r) ==
    [_elemCount  |-> 0,
     _nextResize |-> StartResizeTrehsold,
     _map        |-> PlainNew(DefaultBucketSize, r)]

ProbeSearch(b, key) ==
    PlainSearchAndSave(b._map, key) /\ PlainGetLastSearchedKey(b._map, key) = key

\* The loop of _insert: the raw insert, and after each failure a resize at
\* the same size with one draw.  The table and the generator then repeat
\* within HashFamilySize * HashFamilySize rounds, so a loop that has not
\* ended by then never ends: hung.
RECURSIVE ProbeInsertLoop(_, _, _, _, _)
ProbeInsertLoop(m, key, item, r, rounds) ==
    LET Again(rz) == ProbeInsertLoop(rz.m, key, item, rz.rng, rounds - 1)
        Inserted(ins) ==
            IF ins.ok
            THEN [m |-> ins.m, rng |-> r, hung |-> FALSE]
            ELSE IF rounds = 0
            THEN [m |-> m, rng |-> r, hung |-> TRUE]
            ELSE Again(PlainResize(m, PlainGetSize(m), 1, r))
    IN Inserted(PlainInsert(m, key, item))

\* Mutant: an _insert that doubles the table at the threshold and leaves
\* the threshold as it is.
Probe_insertSameThreshold(b, key, item, r) ==
    LET Done(grow, lp) ==
            [b    |-> [_elemCount  |-> Inc(b._elemCount),
                       _nextResize |-> b._nextResize,
                       _map        |-> lp.m],
             rng  |-> lp.rng,
             hung |-> lp.hung]
        Loop(grow, rz) ==
            Done(grow, ProbeInsertLoop(rz.m, key, item, rz.rng,
                                       HashFamilySize * HashFamilySize))
        Grow(grow) ==
            Loop(grow,
                 IF grow
                 THEN PlainResize(b._map, PlainGetSize(b._map) * DefaultResizeCoef,
                                  INT_MAX, r)
                 ELSE [ok |-> TRUE, m |-> b._map, rng |-> r])
    IN Grow(Inc(b._elemCount) = b._nextResize)

Probe_insert(b, key, item, r) ==
    LET Done(grow, lp) ==
            [b    |-> [_elemCount  |-> Inc(b._elemCount),
                       _nextResize |-> IF grow THEN Inc(b._nextResize) ELSE b._nextResize,
                       _map        |-> lp.m],
             rng  |-> lp.rng,
             hung |-> lp.hung]
        Loop(grow, rz) ==
            Done(grow, ProbeInsertLoop(rz.m, key, item, rz.rng,
                                       HashFamilySize * HashFamilySize))
        Grow(grow) ==
            Loop(grow,
                 IF grow
                 THEN PlainResize(b._map, PlainGetSize(b._map) * DefaultResizeCoef,
                                  INT_MAX, r)
                 ELSE [ok |-> TRUE, m |-> b._map, rng |-> r])
    IN Grow(Inc(b._elemCount) = b._nextResize)

ProbeInsert(b, key, item, r) ==
    IF ProbeSearch(b, key)
    THEN [ok |-> FALSE, b |-> b, rng |-> r, hung |-> FALSE]
    ELSE LET Return(ins) == [ok |-> TRUE, b |-> ins.b, rng |-> ins.rng, hung |-> ins.hung]
         IN Return(Probe_insert(b, key, item, r))

ProbeRemove(b, key) ==
    [b EXCEPT !._map = PlainRemove(b._map, key), !._elemCount = Dec(b._elemCount)]

ProbeSafeRemove(b, key) ==
    IF ~ProbeSearch(b, key)
    THEN [ok |-> FALSE, b |-> b]
    ELSE [ok |-> TRUE,
          b  |-> [b EXCEPT !._map = PlainRemove(b._map, key),
                           !._elemCount = Dec(b._elemCount)]]

ProbeGet(b, key) == PlainIndex(b._map, key)

\* The slot of key is taken as the entry of key whenever it is occupied;
\* the comparer is not applied.  An empty slot is filled with key and
\* ItemT{}, and _elemCount is left as it is.
ProbeSafeGet(b, key) ==
    IF PlainSearchAndSave(b._map, key)
    THEN [item |-> PlainGetLastSearched(b._map, key), b |-> b]
    ELSE LET ins == PlainInsert(b._map, key, DefaultItem)
         IN [item |-> PlainIndex(ins.m, key), b |-> [b EXCEPT !._map = ins.m]]

\* The new vector's buckets are default constructed one by one, each with
\* a draw of its own.
NewProbeBuckets(nSize, r) ==
    [i \in 1..nSize |-> NewProbeBucket((r + i - 1) % HashFamilySize)]

\* The loops of reorganizeBuckets, from slot i of old bucket bi on.
\* st is [new, used, rng, hung].
RECURSIVE ProbeCopyEntries(_, _, _, _, _)
ProbeCopyEntries(st, oldBuckets, bi, i, nFunc) ==
    IF st.hung \/ bi > Len(oldBuckets)
    THEN st
    ELSE IF i > Len(oldBuckets[bi]._map.occup)
    THEN ProbeCopyEntries(st, oldBuckets, bi + 1, 1, nFunc)
    ELSE IF ~oldBuckets[bi]._map.occup[i]
    THEN ProbeCopyEntries(st, oldBuckets, bi, i + 1, nFunc)
    ELSE LET Inserted(h, ins) ==
                 [new  |-> [st.new EXCEPT ![h] = ins.b],
                  used |-> st.used + (IF ins.b._elemCount = 1 THEN 1 ELSE 0),
                  rng  |-> ins.rng,
                  hung |-> ins.hung]
             Into(h) == Inserted(h, ProbeInsert(st.new[h], oldBuckets[bi]._map.keys[i],
                                                oldBuckets[bi]._map.items[i], st.rng))
         IN ProbeCopyEntries(Into(Hash(nFunc, oldBuckets[bi]._map.keys[i]) + 1),
                             oldBuckets, bi, i + 1, nFunc)

\* PlainHashBucketT::reorganizeBuckets.
ProbeReorganizeBuckets(oldBuckets, nSize, nFunc, r) ==
    LET Return(st) ==
            [buckets |-> st.new, used |-> st.used, rng |-> st.rng, hung |-> st.hung]
    IN Return(ProbeCopyEntries(
                  [new  |-> NewProbeBuckets(nSize, r),
                   used |-> 0,
                   rng  |-> (r + nSize) % HashFamilySize,
                   hung |-> FALSE],
                  oldBuckets, 1, 1, nFunc))

\* ------------------------------------------------------ _chainHashingMapT

VARIABLES
    kind,           \* the BucketT the map is instantiated with: "Probe" or "Chain"
    _hFunc,         \* the active hash function
    _rehashPolicy,  \* the ratio, as [num, den]
    _nextRehash,
    _elemCount,
    _bucketCount,
    _buckets,       \* the bucket array; bucket i of the code is _buckets[i + 1]
    rng,            \* the generator the hash functions are drawn from
    pc,             \* "ready", or how the program ended: "trapped", "undefined", "hung"
    lastOp          \* the last call: [op, key, ret, val, present, tries, cap]:
                    \* val is the item passed or handed out, present is search(key)
                    \* and cap is getMaxBucketSize(), both as the call began

vars == <<kind, _hFunc, _rehashPolicy, _nextRehash, _elemCount, _bucketCount,
          _buckets, rng, pc, lastOp>>

\* The BucketT member functions, by bucket strategy.
BucketSize(b) == b._elemCount

BucketSearch(k, b, key) ==
    IF k = "Chain" THEN ChainSearch(b, key) ELSE ProbeSearch(b, key)

BucketInsert(k, b, key, item, r) ==
    IF k = "Chain"
    THEN LET Return(ins) == [ok |-> ins.ok, b |-> ins.b, rng |-> r, hung |-> FALSE]
         IN Return(ChainInsert(b, key, item))
    ELSE ProbeInsert(b, key, item, r)

BucketSafeGet(k, b, key) ==
    IF k = "Chain" THEN ChainSafeGet(b, key) ELSE ProbeSafeGet(b, key)

BucketGet(k, b, key) ==
    IF k = "Chain" THEN ChainGet(b, key) ELSE [item |-> ProbeGet(b, key), b |-> b]

\* Mutant: a _rehash that redistributes under one hash function and keeps
\* another, drawn after it, as the active one.
MapRehashOtherHash(k, buckets, size, r) ==
    LET hf == HashFuncT(size, r)
        Chain(rb) ==
            [hf |-> HashFuncT(size, NextRng(r)),
             buckets |-> [i \in 1..size |-> ChainCopy(rb.buckets[i])],
             used |-> rb.used, rng |-> NextRng(NextRng(r)), hung |-> FALSE, ub |-> rb.ub]
        Probe(rb) ==
            [hf |-> HashFuncT(size, rb.rng), buckets |-> rb.buckets,
             used |-> rb.used, rng |-> NextRng(rb.rng), hung |-> rb.hung, ub |-> FALSE]
    IN IF k = "Chain"
       THEN Chain(ChainReorganizeBuckets(
                      [i \in 1..Len(buckets) |-> ChainCopy(buckets[i])], size, hf))
       ELSE Probe(ProbeReorganizeBuckets(buckets, size, hf, NextRng(r)))

\* _rehash(size) on the bucket array buckets: [hf, buckets, used, rng, hung, ub].
MapRehash(k, buckets, size, r) ==
    LET hf == HashFuncT(size, r)
        Chain(rb) ==
            [hf |-> hf, buckets |-> [i \in 1..size |-> ChainCopy(rb.buckets[i])],
             used |-> rb.used, rng |-> NextRng(r), hung |-> FALSE, ub |-> rb.ub]
        Probe(rb) ==
            [hf |-> hf, buckets |-> rb.buckets,
             used |-> rb.used, rng |-> rb.rng, hung |-> rb.hung, ub |-> FALSE]
    IN IF k = "Chain"
       THEN Chain(ChainReorganizeBuckets(
                      [i \in 1..Len(buckets) |-> ChainCopy(buckets[i])], size, hf))
       ELSE Probe(ProbeReorganizeBuckets(buckets, size, hf, NextRng(r)))

\* Mutant: a _resize that grows the vector and builds the hash function
\* for the new size, but leaves every entry in the bucket it was in.
MapResizeInPlace(k, buckets, policy, r) ==
    LET nSize == Len(buckets) * 2 IN
    [hf      |-> HashFuncT(nSize, r),
     buckets |-> buckets \o (IF k = "Chain"
                             THEN [i \in 1..Len(buckets) |-> NewChainBucket]
                             ELSE NewProbeBuckets(Len(buckets), NextRng(r))),
     used    |-> Cardinality({i \in 1..Len(buckets) : BucketSize(buckets[i]) >= 1}),
     rng     |-> (r + 1 + (IF k = "Chain" THEN 0 ELSE Len(buckets))) % HashFamilySize,
     hung    |-> FALSE,
     ub      |-> FALSE,
     nextRehash |-> Threshold(nSize, policy)]

\* Mutant: a _resize that computes the threshold from the size before the
\* doubling.
MapResizeOldThreshold(k, buckets, policy, r) ==
    LET nSize == Len(buckets) * 2
        Return(rh) ==
            [hf |-> rh.hf, buckets |-> rh.buckets, used |-> rh.used, rng |-> rh.rng,
             hung |-> rh.hung, ub |-> rh.ub,
             nextRehash |-> Threshold(Len(buckets), policy)]
    IN Return(MapRehash(k, buckets, nSize, r))

\* Mutant: a _resize that halves the size instead of doubling it.
MapResizeHalved(k, buckets, policy, r) ==
    LET nSize == IF Len(buckets) > 1 THEN Len(buckets) \div 2 ELSE 1
        Return(rh) ==
            [hf |-> rh.hf, buckets |-> rh.buckets, used |-> rh.used, rng |-> rh.rng,
             hung |-> rh.hung, ub |-> rh.ub, nextRehash |-> Threshold(nSize, policy)]
    IN Return(MapRehash(k, buckets, nSize, r))

\* _resize() on the bucket array buckets: _rehash at twice the size, and
\* the threshold for that size.
MapResize(k, buckets, policy, r) ==
    LET nSize == Len(buckets) * 2
        Return(rh) ==
            [hf |-> rh.hf, buckets |-> rh.buckets, used |-> rh.used, rng |-> rh.rng,
             hung |-> rh.hung, ub |-> rh.ub, nextRehash |-> Threshold(nSize, policy)]
    IN Return(MapRehash(k, buckets, nSize, r))

\* How a call that ran into hung or ub leaves the program.
EndOf(hung, ub) == IF hung THEN "hung" ELSE IF ub THEN "undefined" ELSE "ready"

BoolStr(b) == IF b THEN "true" ELSE "false"

\* search(key)
MapSearch(key) == BucketSearch(kind, _buckets[Hash(_hFunc, key) + 1], key)

\* getMaxBucketSize()
getMaxBucketSize == Len(_buckets)

\* The item stored under key in the bucket the active hash function names.
StoredItem(k, buckets, hf, key) ==
    LET b == buckets[Hash(hf, key) + 1] IN
    IF k = "Chain" THEN b.list[ChainIndexOf(b, key)]._item ELSE ProbeGet(b, key)

\* Mutant: an insert that resizes as soon as the counter reaches the
\* threshold.
MapInsertAtThreshold(key, item) ==
    LET h == Hash(_hFunc, key) + 1
        Return(ins) ==
            [ok          |-> ins.ok,
             buckets     |-> [_buckets EXCEPT ![h] = ins.b],
             bucketCount |-> (_bucketCount + (IF BucketSize(ins.b) = 1 THEN 1 ELSE 0))
                                 % SizeTModulus,
             elemCount   |-> Inc(_elemCount),
             rng         |-> ins.rng,
             hung        |-> ins.hung,
             resized     |-> ins.ok /\ ~ins.hung /\ Inc(_elemCount) >= _nextRehash]
    IN Return(BucketInsert(kind, _buckets[h], key, item, rng))

\* insert(key, item) up to the threshold test:
\* [ok, buckets, bucketCount, elemCount, rng, hung, resized].
MapInsert(key, item) ==
    LET h == Hash(_hFunc, key) + 1
        Return(ins) ==
            [ok          |-> ins.ok,
             buckets     |-> [_buckets EXCEPT ![h] = ins.b],
             bucketCount |-> (_bucketCount + (IF BucketSize(ins.b) = 1 THEN 1 ELSE 0))
                                 % SizeTModulus,
             elemCount   |-> Inc(_elemCount),
             rng         |-> ins.rng,
             hung        |-> ins.hung,
             resized     |-> ins.ok /\ ~ins.hung /\ Inc(_elemCount) > _nextRehash]
    IN Return(BucketInsert(kind, _buckets[h], key, item, rng))

\* _chainHashingMapT(size), for the sizes 1..MaxInitSize.
Init ==
    /\ kind \in {"Probe", "Chain"}
    /\ \E size \in 1..MaxInitSize, r \in 0..(HashFamilySize - 1) :
          /\ _hFunc = HashFuncT(size, r)
          /\ _nextRehash = Threshold(size, DefaultRehashPolicy)
          /\ _buckets = IF kind = "Chain"
                        THEN [i \in 1..size |-> NewChainBucket]
                        ELSE NewProbeBuckets(size, NextRng(r))
          /\ rng = (r + 1 + (IF kind = "Chain" THEN 0 ELSE size)) % HashFamilySize
    /\ _rehashPolicy = DefaultRehashPolicy
    /\ _elemCount = 0
    /\ _bucketCount = 0
    /\ pc = "ready"
    /\ lastOp = [op |-> "new", key |-> 0, ret |-> "void", val |-> DefaultItem,
                 present |-> FALSE, tries |-> 0, cap |-> Len(_buckets)]

Insert(key, item) ==
    /\ pc = "ready"
    /\ \E res \in {MapInsert(key, item)} :
          /\ res.resized => 2 * Len(_buckets) <= MaxBuckets
          /\ IF ~res.ok
             THEN /\ _buckets' = res.buckets
                  /\ rng' = res.rng
                  /\ UNCHANGED <<_hFunc, _nextRehash, _elemCount, _bucketCount, pc>>
             ELSE IF ~res.resized
             THEN /\ _buckets' = res.buckets
                  /\ _bucketCount' = res.bucketCount
                  /\ _elemCount' = res.elemCount
                  /\ rng' = res.rng
                  /\ pc' = EndOf(res.hung, FALSE)
                  /\ UNCHANGED <<_hFunc, _nextRehash>>
             ELSE \E rs \in {MapResize(kind, res.buckets, _rehashPolicy, res.rng)} :
                  /\ _hFunc' = rs.hf
                  /\ _buckets' = rs.buckets
                  /\ _bucketCount' = rs.used
                  /\ _nextRehash' = rs.nextRehash
                  /\ _elemCount' = res.elemCount
                  /\ rng' = rs.rng
                  /\ pc' = EndOf(rs.hung, rs.ub)
          /\ lastOp' = [op |-> "insert", key |-> key, ret |-> BoolStr(res.ok),
                        val |-> item, present |-> MapSearch(key), tries |-> 0,
                        cap |-> Len(_buckets)]
    /\ UNCHANGED <<kind, _rehashPolicy>>

\* What safeRemove(key) of the bucket can return and leave: [ret, b, pc].
BucketSafeRemove(k, b, key) ==
    IF k = "Chain"
    THEN LET Chain(sr) ==
                 IF sr.ub
                 THEN { [ret |-> BoolStr(o.ok), b |-> o.b, pc |-> "undefined"] :
                            o \in ChainUBOutcomes(b) }
                      \cup { [ret |-> "trap", b |-> b, pc |-> "trapped"] }
                 ELSE { [ret |-> BoolStr(sr.ok), b |-> sr.b, pc |-> "ready"] }
         IN Chain(ChainSafeRemove(b, key))
    ELSE LET Probe(sr) == { [ret |-> BoolStr(sr.ok), b |-> sr.b, pc |-> "ready"] }
         IN Probe(ProbeSafeRemove(b, key))

\* What remove(key) of the bucket can leave: [ret, b, pc].
BucketRemove(k, b, key) ==
    IF k = "Chain"
    THEN { [ret |-> IF o.ret = "trap" THEN "trap" ELSE "void", b |-> o.b, pc |-> o.pc] :
               o \in BucketSafeRemove(k, b, key) }
    ELSE { [ret |-> "void", b |-> ProbeRemove(b, key), pc |-> "ready"] }

\* The counter update after the bucket's remove or safeRemove returned.
BucketCountAfterRemove(bc, b) ==
    IF BucketSize(b) = 0 THEN Dec(bc) ELSE bc

SafeRemove(key) ==
    /\ pc = "ready"
    /\ LET h == Hash(_hFunc, key) + 1 IN
       \E o \in BucketSafeRemove(kind, _buckets[h], key) :
          /\ Followed(BucketSize(o.b))
          /\ Followed(BucketCountAfterRemove(_bucketCount, o.b))
          /\ _buckets' = [_buckets EXCEPT ![h] = o.b]
          /\ _bucketCount' = IF o.ret = "trap" THEN _bucketCount
                             ELSE BucketCountAfterRemove(_bucketCount, o.b)
          /\ pc' = o.pc
          /\ lastOp' = [op |-> "safeRemove", key |-> key, ret |-> o.ret,
                        val |-> DefaultItem, present |-> MapSearch(key), tries |-> 0,
                        cap |-> Len(_buckets)]
    /\ UNCHANGED <<kind, _hFunc, _rehashPolicy, _nextRehash, _elemCount, rng>>

MapRemove(key) ==
    /\ pc = "ready"
    /\ LET h == Hash(_hFunc, key) + 1 IN
       \E o \in BucketRemove(kind, _buckets[h], key) :
          /\ Followed(BucketSize(o.b))
          /\ Followed(BucketCountAfterRemove(_bucketCount, o.b))
          /\ _buckets' = [_buckets EXCEPT ![h] = o.b]
          /\ _bucketCount' = IF o.ret = "trap" THEN _bucketCount
                             ELSE BucketCountAfterRemove(_bucketCount, o.b)
          /\ pc' = o.pc
          /\ lastOp' = [op |-> "remove", key |-> key, ret |-> o.ret,
                        val |-> DefaultItem, present |-> MapSearch(key), tries |-> 0,
                        cap |-> Len(_buckets)]
    /\ UNCHANGED <<kind, _hFunc, _rehashPolicy, _nextRehash, _elemCount, rng>>

\* remove(key) of a key that is in the map.
Remove(key) == MapSearch(key) /\ MapRemove(key)

\* remove(key) of a key that is not in the map.
RemoveMissing(key) == ~MapSearch(key) /\ MapRemove(key)

\* operator[](key), the reference read.
Index(key) ==
    /\ pc = "ready"
    /\ \E sg \in {BucketSafeGet(kind, _buckets[Hash(_hFunc, key) + 1], key)} :
          /\ _buckets' = [_buckets EXCEPT ![Hash(_hFunc, key) + 1] = sg.b]
          /\ lastOp' = [op |-> "index", key |-> key, ret |-> "ref",
                        val |-> sg.item, present |-> MapSearch(key), tries |-> 0,
                        cap |-> Len(_buckets)]
    /\ UNCHANGED <<kind, _hFunc, _rehashPolicy, _nextRehash, _elemCount, _bucketCount,
                   rng, pc>>

\* get(key), read as _buckets[_hFunc(key)].get(key): the member names the
\* vector itself, which has no get.  PlainHashBucketT::get assumes the key
\* is there, so on a "Probe" map the call is made for such keys only.
Get(key) ==
    /\ pc = "ready"
    /\ kind = "Probe" => MapSearch(key)
    /\ \E g \in {BucketGet(kind, _buckets[Hash(_hFunc, key) + 1], key)} :
          /\ _buckets' = [_buckets EXCEPT ![Hash(_hFunc, key) + 1] = g.b]
          /\ lastOp' = [op |-> "get", key |-> key, ret |-> "ref",
                        val |-> g.item, present |-> MapSearch(key), tries |-> 0,
                        cap |-> Len(_buckets)]
    /\ UNCHANGED <<kind, _hFunc, _rehashPolicy, _nextRehash, _elemCount, _bucketCount,
                   rng, pc>>

\* load_factor() > ratio and load_factor() < ratio in float arithmetic:
\* x / 0 is +inf for x > 0 and NaN for x = 0, and NaN compares false.
LoadFactorAbove(ec, bc, ratio) ==
    IF bc = 0 THEN ec > 0 ELSE ec * ratio.den > bc * ratio.num

LoadFactorBelow(ec, bc, ratio) ==
    IF bc = 0 THEN FALSE ELSE ec * ratio.den < bc * ratio.num

\* Mutant: a rehash loop that tests tries++ <= maxTries and so makes one
\* more try than asked for.
RECURSIVE MapRehashLoopOneMore(_, _, _, _, _)
MapRehashLoopOneMore(k, st, ec, ratio, maxTries) ==
    IF st.hung \/ st.ub \/ ~LoadFactorAbove(ec, st.used, ratio) \/ st.tries > maxTries
    THEN st
    ELSE LET Rehashed(rh) ==
                 [hf |-> rh.hf, buckets |-> rh.buckets, used |-> rh.used, rng |-> rh.rng,
                  hung |-> rh.hung, ub |-> rh.ub, tries |-> st.tries + 1]
         IN MapRehashLoopOneMore(k, Rehashed(MapRehash(k, st.buckets, Len(st.buckets), st.rng)),
                                 ec, ratio, maxTries)

\* The loop of rehash(): st is [hf, buckets, used, rng, hung, ub, tries].
RECURSIVE MapRehashLoop(_, _, _, _, _)
MapRehashLoop(k, st, ec, ratio, maxTries) ==
    IF st.hung \/ st.ub \/ ~LoadFactorAbove(ec, st.used, ratio) \/ st.tries >= maxTries
    THEN st
    ELSE LET Rehashed(rh) ==
                 [hf |-> rh.hf, buckets |-> rh.buckets, used |-> rh.used, rng |-> rh.rng,
                  hung |-> rh.hung, ub |-> rh.ub, tries |-> st.tries + 1]
         IN MapRehashLoop(k, Rehashed(MapRehash(k, st.buckets, Len(st.buckets), st.rng)),
                          ec, ratio, maxTries)

\* rehash(desiredBucketRatio, maxTries)
Rehash(ratio, maxTries) ==
    /\ pc = "ready"
    /\ \E st \in {MapRehashLoop(kind,
                     [hf |-> _hFunc, buckets |-> _buckets, used |-> _bucketCount,
                      rng |-> rng, hung |-> FALSE, ub |-> FALSE, tries |-> 0],
                     _elemCount, ratio, maxTries)} :
          /\ _hFunc' = st.hf
          /\ _buckets' = st.buckets
          /\ _bucketCount' = st.used
          /\ rng' = st.rng
          /\ pc' = EndOf(st.hung, st.ub)
          /\ lastOp' = [op |-> "rehash", key |-> 0,
                        ret |-> BoolStr(LoadFactorBelow(_elemCount, st.used, ratio)),
                        val |-> DefaultItem, present |-> FALSE, tries |-> st.tries,
                        cap |-> Len(_buckets)]
    /\ UNCHANGED <<kind, _rehashPolicy, _nextRehash, _elemCount>>

\* accessRehashPolicy() = policy
SetRehashPolicy(policy) ==
    /\ pc = "ready"
    /\ _rehashPolicy' = policy
    /\ lastOp' = [op |-> "policy", key |-> 0, ret |-> "void", val |-> DefaultItem,
                  present |-> FALSE, tries |-> 0, cap |-> Len(_buckets)]
    /\ UNCHANGED <<kind, _hFunc, _nextRehash, _elemCount, _bucketCount, _buckets, rng, pc>>

\* rehash() is called with maxTries in 0..MaxTries.
MaxTries == 2

Next ==
    \/ \E key \in Keys, item \in Items : Insert(key, item)
    \/ \E key \in Keys : SafeRemove(key)
    \/ \E key \in Keys : Remove(key)
    \/ \E key \in Keys : RemoveMissing(key)
    \/ \E key \in Keys : Index(key)
    \/ \E key \in Keys : Get(key)
    \/ \E ratio \in Policies, maxTries \in 0..MaxTries : Rehash(ratio, maxTries)
    \/ \E policy \in Policies : SetRehashPolicy(policy)

Spec == Init /\ [][Next]_vars

\* The calls the contract of the container speaks of: insert, safeRemove,
\* remove of a key that is in the map, and rehash.
NextContract ==
    \/ \E key \in Keys, item \in Items : Insert(key, item)
    \/ \E key \in Keys : SafeRemove(key)
    \/ \E key \in Keys : Remove(key)
    \/ \E ratio \in Policies, maxTries \in 0..MaxTries : Rehash(ratio, maxTries)

SpecContract == Init /\ [][NextContract]_vars

\* The calls on the way to a bucket's insert, safeRemove, safeGet and remove
\* of a key it holds: insert, safeRemove, operator[] and remove of a key that
\* is in the map.
NextAccess ==
    \/ \E key \in Keys, item \in Items : Insert(key, item)
    \/ \E key \in Keys : SafeRemove(key)
    \/ \E key \in Keys : Remove(key)
    \/ \E key \in Keys : Index(key)

SpecAccess == Init /\ [][NextAccess]_vars

\* A map whose rehash policy is left at DefaultRehashPolicy: every call but
\* the write through accessRehashPolicy().
NextDefaultPolicy ==
    \/ \E key \in Keys, item \in Items : Insert(key, item)
    \/ \E key \in Keys : SafeRemove(key)
    \/ \E key \in Keys : Remove(key)
    \/ \E key \in Keys : RemoveMissing(key)
    \/ \E key \in Keys : Index(key)
    \/ \E key \in Keys : Get(key)
    \/ \E ratio \in Policies, maxTries \in 0..MaxTries : Rehash(ratio, maxTries)

SpecDefaultPolicy == Init /\ [][NextDefaultPolicy]_vars

\* One PlainHashBucketT and more keys than its table has slots at first: a
\* map built with one bucket, and insert (of one item) and operator[] called
\* with the keys 1..DefaultBucketSize + 1.
FillKeys == 1..(DefaultBucketSize + 1)

InitFill == Init /\ kind = "Probe" /\ Len(_buckets) = 1

NextFill ==
    \/ \E key \in FillKeys : Insert(key, MaxItem)
    \/ \E key \in FillKeys : Index(key)

SpecFill == InitFill /\ [][NextFill]_vars

\* ------------------------------------------------------------- observers

\* The keys search() finds.
PresentKeys == {k \in Keys : MapSearch(k)}

\* The item stored under key.
ItemOf(key) == StoredItem(kind, _buckets, _hFunc, key)

\* The keys held by bucket b, and how often b holds the entry (key, item).
KeysIn(k, b) ==
    IF k = "Chain"
    THEN {b.list[i]._key : i \in 1..Len(b.list)}
    ELSE {b._map.keys[i] : i \in {j \in 1..Len(b._map.occup) : b._map.occup[j]}}

EntryCount(k, b, key, item) ==
    IF k = "Chain"
    THEN Cardinality({i \in 1..Len(b.list) :
                         b.list[i]._key = key /\ b.list[i]._item = item})
    ELSE Cardinality({i \in 1..Len(b._map.occup) :
                         b._map.occup[i] /\ b._map.keys[i] = key /\ b._map.items[i] = item})

RECURSIVE SumOver(_, _, _, _, _)
SumOver(k, buckets, i, key, item) ==
    IF i > Len(buckets) THEN 0
    ELSE EntryCount(k, buckets[i], key, item) + SumOver(k, buckets, i + 1, key, item)

\* Two bucket arrays hold the same multiset of entries.
SameEntries(k, bs1, bs2) ==
    \A key \in Keys, item \in 0..MaxItem :
        SumOver(k, bs1, 1, key, item) = SumOver(k, bs2, 1, key, item)

\* The last call was an insert that doubled the bucket array.
InsertResized == lastOp.op = "insert" /\ Len(_buckets) > lastOp.cap

\* ---------------------------------------------------------------- claims

\* C1: every key that search() finds before an insert-triggered resize is
\* found after it, with the item it had; for both bucket strategies and at
\* every resize.
C1_RehashPreservesMembership ==
    [][(lastOp'.op = "insert" /\ pc' = "ready" /\ Len(_buckets') > Len(_buckets))
         => \A k \in Keys :
               MapSearch(k) => (MapSearch(k)' /\ ItemOf(k)' = ItemOf(k))]_vars

\* C1 witness: the second doubling (to four buckets) of a map that held another
\* key with a non-default item when the insert began.
C1_Witness ==
    /\ InsertResized /\ lastOp.ret = "true" /\ pc = "ready"
    /\ Len(_buckets) = 4 /\ lastOp.cap = 2
    /\ \E k \in Keys : k # lastOp.key /\ MapSearch(k) /\ ItemOf(k) = MaxItem

\* C2: an insert of a key that search() finds returns false and changes
\* nothing: not the item under the key, not size(), getBucketCount(),
\* getMaxBucketSize(), the threshold or the hash function.
C2_DuplicateInsertNoOp ==
    [][\A key \in Keys :
          (lastOp'.op = "insert" /\ lastOp'.key = key /\ lastOp'.present)
            => /\ lastOp'.ret = "false"
               /\ ItemOf(key)' = ItemOf(key)
               /\ UNCHANGED <<_buckets, _elemCount, _bucketCount, _nextRehash, _hFunc>>]_vars

\* C2 witness: a rejected insert whose item differs from the stored one, in a
\* map filled to its threshold (a counted insert would have resized it).
C2_Witness ==
    /\ lastOp.op = "insert" /\ lastOp.present /\ lastOp.ret = "false"
    /\ ItemOf(lastOp.key) # lastOp.val
    /\ _elemCount = _nextRehash

\* C3: size() is the number of keys search() finds.
C3_SizeIsKeyCount ==
    pc = "ready" => _elemCount = Cardinality(PresentKeys)

\* C4: getBucketCount() is the number of buckets whose size() is at least 1.
C4_BucketCountIsNonEmpty ==
    pc = "ready" =>
        _bucketCount = Cardinality({i \in 1..Len(_buckets) : BucketSize(_buckets[i]) >= 1})

\* C5: safeRemove of a key that search() finds returns true, the key is
\* not found afterwards, and every other key is found or not as before,
\* with the item it had.
C5_RemoveExactlyThatKey ==
    [][\A key \in Keys :
          (lastOp'.op = "safeRemove" /\ lastOp'.key = key /\ lastOp'.present)
            => /\ lastOp'.ret = "true"
               /\ ~MapSearch(key)'
               /\ \A k \in Keys \ {key} :
                     /\ MapSearch(k)' = MapSearch(k)
                     /\ MapSearch(k) => ItemOf(k)' = ItemOf(k)]_vars

\* C5 witness: a key was removed from a bucket that still holds another key.
C5_Witness ==
    /\ lastOp.op = "safeRemove" /\ lastOp.present /\ lastOp.ret = "true"
    /\ \E k \in Keys : /\ k # lastOp.key
                       /\ MapSearch(k)
                       /\ Hash(_hFunc, k) = Hash(_hFunc, lastOp.key)

\* C6: safeRemove of a key that search() does not find returns false and
\* leaves size() as it was.
C6_IdempotentRemove ==
    [][(lastOp'.op = "safeRemove" /\ ~lastOp'.present)
         => (lastOp'.ret = "false" /\ _elemCount' = _elemCount)]_vars

\* What C7 asks of the result rb of LinkedListBucketT::reorganizeBuckets
\* for the size nSize.
ChainReorganizeOk(rb, nSize) ==
    /\ ~rb.ub
    /\ Len(rb.buckets) = nSize
    /\ SameEntries("Chain", rb.buckets, _buckets)
    /\ \A i \in 1..Len(rb.old) : rb.old[i].list = <<>>

\* What C7 asks of the result rb of PlainHashBucketT::reorganizeBuckets.
ProbeReorganizeOk(rb, nSize) ==
    /\ ~rb.hung
    /\ Len(rb.buckets) = nSize
    /\ SameEntries("Probe", rb.buckets, _buckets)

C8_Placement ==
    /\ _hFunc.n = Len(_buckets)
    /\ \A i \in 1..Len(_buckets) :
          \A k \in KeysIn(kind, _buckets[i]) : Hash(_hFunc, k) + 1 = i

\* C8 witness: after a manual rehash that rehashed, two keys lie in two
\* different buckets of four.
C8_Witness ==
    /\ lastOp.op = "rehash" /\ lastOp.tries > 0 /\ Len(_buckets) = 4
    /\ \E i, j \in 1..Len(_buckets) :
          i # j /\ KeysIn(kind, _buckets[i]) # {} /\ KeysIn(kind, _buckets[j]) # {}

\* C9: getMaxBucketSize() never decreases.
C9_CapacityMonotonic ==
    [][Len(_buckets') >= Len(_buckets)]_vars

\* C9 witness: the last key was removed from a map that had grown to four
\* buckets, and it still has four.
C9_Witness ==
    /\ lastOp.op \in {"remove", "safeRemove"} /\ lastOp.present /\ pc = "ready"
    /\ PresentKeys = {}
    /\ Len(_buckets) = 4

\* C10: operator[] (and get on a chain map) of a key that search() does
\* not find hands out a default item, and afterwards search() finds the key
\* with a default item stored under it.
C10_AutoVivification ==
    (lastOp.op \in {"index", "get"} /\ ~lastOp.present)
        => /\ lastOp.val = DefaultItem
           /\ MapSearch(lastOp.key)
           /\ ItemOf(lastOp.key) = DefaultItem

\* C11: rehash(desiredBucketRatio, maxTries) returns true exactly when
\* load_factor() is not greater than desiredBucketRatio as it returns.
C11_RehashReturnsRatioMet ==
    [][\A ratio \in Policies, maxTries \in 0..MaxTries :
          (lastOp'.op = "rehash" /\ Rehash(ratio, maxTries) /\ pc' = "ready")
            => (lastOp'.ret = "true"
                  <=> ~LoadFactorAbove(_elemCount', _bucketCount', ratio))]_vars

\* C12 as stated: a successful insert doubles getMaxBucketSize() exactly
\* when the incremented element counter exceeds the current size times the
\* current rehash policy, and a rejected insert never resizes.
C12_GrowthTriggerByPolicy ==
    [][(lastOp'.op = "insert" /\ pc' = "ready")
         => /\ lastOp'.ret = "true"
                 => Len(_buckets') =
                      IF Inc(_elemCount) > Threshold(Len(_buckets), _rehashPolicy)
                      THEN 2 * Len(_buckets) ELSE Len(_buckets)
            /\ lastOp'.ret = "false" => Len(_buckets') = Len(_buckets)]_vars

\* C12: a successful insert doubles getMaxBucketSize() exactly when the
\* incremented element counter exceeds the stored threshold _nextRehash,
\* and then stores the new size times the rehash policy as the threshold; a
\* rejected insert never resizes.
C12_GrowthTrigger ==
    [][(lastOp'.op = "insert" /\ pc' = "ready")
         => /\ lastOp'.ret = "true"
                 => IF Inc(_elemCount) > _nextRehash
                    THEN /\ Len(_buckets') = 2 * Len(_buckets)
                         /\ _nextRehash' = Threshold(Len(_buckets'), _rehashPolicy)
                    ELSE /\ Len(_buckets') = Len(_buckets)
                         /\ _nextRehash' = _nextRehash
            /\ lastOp'.ret = "false"
                 => (Len(_buckets') = Len(_buckets) /\ _nextRehash' = _nextRehash)]_vars

\* C12 witness: a successful insert that left the size alone, the counter
\* within the stored threshold but above the size times the policy set since.
C12_Witness ==
    /\ lastOp.op = "insert" /\ lastOp.ret = "true" /\ pc = "ready"
    /\ Len(_buckets) = lastOp.cap
    /\ _elemCount <= _nextRehash
    /\ _elemCount > Threshold(Len(_buckets), _rehashPolicy)

\* What C13 asks of st, the state in which the loop of rehash(ratio,
\* maxTries) leaves the map of this state.
RehashLoopOk(st, maxTries) ==
    /\ st.tries <= maxTries
    /\ ~st.hung /\ ~st.ub
    /\ Len(st.buckets) = Len(_buckets)
    /\ st.hf.n = Len(_buckets)
    /\ \A k \in Keys :
          /\ BucketSearch(kind, st.buckets[Hash(st.hf, k) + 1], k) = MapSearch(k)
          /\ MapSearch(k) => StoredItem(kind, st.buckets, st.hf, k) = ItemOf(k)

\* C13: rehash(desiredBucketRatio, maxTries), called in any state, makes at
\* most maxTries rehashes, each at the size the bucket array has, and
\* leaves getMaxBucketSize(), size(), the threshold, and for every key the
\* result of search() and the item stored under it, as they were.
C13_RehashRedistributesOnly ==
    /\ [](pc = "ready" =>
            \A ratio \in Policies, maxTries \in 0..MaxTries :
                RehashLoopOk(
                    MapRehashLoop(kind,
                        [hf |-> _hFunc, buckets |-> _buckets, used |-> _bucketCount,
                         rng |-> rng, hung |-> FALSE, ub |-> FALSE, tries |-> 0],
                        _elemCount, ratio, maxTries),
                    maxTries))
    /\ [][lastOp'.op = "rehash"
            => /\ pc' = "ready"
               /\ Len(_buckets') = Len(_buckets)
               /\ _elemCount' = _elemCount
               /\ _nextRehash' = _nextRehash
               /\ \A k \in Keys :
                     /\ MapSearch(k)' = MapSearch(k)
                     /\ MapSearch(k) => ItemOf(k)' = ItemOf(k)]_vars

\* C13 witness: a rehash that used all MaxTries tries on a map of two
\* buckets holding every key, one of them with a non-default item.
C13_Witness ==
    /\ lastOp.op = "rehash" /\ lastOp.tries = MaxTries /\ pc = "ready"
    /\ Len(_buckets) = 2
    /\ PresentKeys = Keys
    /\ \E k \in Keys : ItemOf(k) = MaxItem

\* The sum of size() over the buckets from bucket i on.
RECURSIVE SumOfSizes(_, _)
SumOfSizes(buckets, i) ==
    IF i > Len(buckets) THEN 0
    ELSE (BucketSize(buckets[i]) + SumOfSizes(buckets, i + 1)) % SizeTModulus

\* C14: size() of the map is the sum of size() over its buckets.
C14_SizeIsSumOfBucketSizes ==
    pc = "ready" => _elemCount = SumOfSizes(_buckets, 1)

\* The number of buckets that hold at least one entry.
HoldingBuckets(k, buckets) ==
    Cardinality({i \in 1..Len(buckets) : KeysIn(k, buckets[i]) # {}})

OccupiedSlots(b) ==
    Cardinality({j \in 1..Len(b._map.occup) : b._map.occup[j]})

\* C16: size() of every PlainHashBucketT is the number of occupied slots of
\* its table.
C16_ProbeSizeIsOccupied ==
    (kind = "Probe" /\ pc = "ready")
        => \A i \in 1..Len(_buckets) : BucketSize(_buckets[i]) = OccupiedSlots(_buckets[i])

\* The last call was made on the buckets the map still has: any call but an
\* insert that resized, a rehash, or one the program did not survive.
SameBuckets ==
    /\ lastOp'.op \in {"insert", "safeRemove", "remove", "index", "get", "policy"}
    /\ Len(_buckets') = Len(_buckets)
    /\ pc' = "ready"

\* Bucket i grew in this step: its threshold went up by one.
ProbeGrew(i) == _buckets'[i]._nextResize = _buckets[i]._nextResize + 1

\* C17: in a PlainHashBucketT the threshold starts at StartResizeTrehsold
\* and the table at DefaultBucketSize slots, and the table has doubled once
\* for each step of the threshold; a call leaves the threshold and the table
\* size of every bucket alone unless it is a successful insert that brings
\* the bucket's _elemCount to its threshold, and then the threshold goes up
\* by one and the table size doubles.
C17_ProbeGrowthPolicy ==
    /\ [](kind = "Probe" =>
            \A i \in 1..Len(_buckets) :
                /\ _buckets[i]._nextResize >= StartResizeTrehsold
                /\ PlainGetSize(_buckets[i]._map) =
                      DefaultBucketSize
                        * DefaultResizeCoef ^ (_buckets[i]._nextResize - StartResizeTrehsold))
    /\ [][(kind = "Probe" /\ SameBuckets) =>
            \A i \in 1..Len(_buckets) :
                /\ ProbeGrew(i) <=>
                      /\ lastOp'.op = "insert" /\ lastOp'.ret = "true"
                      /\ i = Hash(_hFunc, lastOp'.key) + 1
                      /\ Inc(_buckets[i]._elemCount) = _buckets[i]._nextResize
                /\ IF ProbeGrew(i)
                   THEN PlainGetSize(_buckets'[i]._map)
                            = DefaultResizeCoef * PlainGetSize(_buckets[i]._map)
                   ELSE /\ _buckets'[i]._nextResize = _buckets[i]._nextResize
                        /\ PlainGetSize(_buckets'[i]._map) = PlainGetSize(_buckets[i]._map)]_vars

\* C17 witness: an insert brought a bucket to two entries, its threshold to
\* three and its table to eight slots, with no resize of the map.
C17_Witness ==
    /\ kind = "Probe" /\ pc = "ready"
    /\ lastOp.op = "insert" /\ lastOp.ret = "true" /\ Len(_buckets) = lastOp.cap
    /\ \E i \in 1..Len(_buckets) :
          /\ _buckets[i]._elemCount = 2
          /\ _buckets[i]._nextResize = StartResizeTrehsold + 1
          /\ PlainGetSize(_buckets[i]._map) = DefaultBucketSize * DefaultResizeCoef

\* C18: an insert of a key that is not in its PlainHashBucketT runs to its
\* end and returns true, and search() then finds the key.
C18_ProbeInsertCompletes ==
    (kind = "Probe" /\ lastOp.op = "insert" /\ ~lastOp.present)
        => (pc = "ready" /\ lastOp.ret = "true" /\ MapSearch(lastOp.key))

\* C19: getBucketCount() is at least 0 and at most getMaxBucketSize().
C19_BucketCountInRange ==
    pc = "ready" => (0 <= _bucketCount /\ _bucketCount <= Len(_buckets))

\* C20: with the rehash policy left at DefaultRehashPolicy, the element
\* counter is at most the threshold, size() is at most getMaxBucketSize(),
\* and the threshold is getMaxBucketSize() times the policy.
C20_OneDoublingIsEnough ==
    pc = "ready" =>
        /\ _rehashPolicy = DefaultRehashPolicy
        /\ _elemCount <= _nextRehash
        /\ _elemCount <= Len(_buckets)
        /\ _nextRehash = Threshold(Len(_buckets), _rehashPolicy)

\* C20 witness: the third successful insert doubled a map of two buckets,
\* and the new threshold is four.
C20_Witness ==
    /\ InsertResized /\ lastOp.ret = "true" /\ pc = "ready"
    /\ lastOp.cap = 2 /\ Len(_buckets) = 4
    /\ _elemCount = 3 /\ _nextRehash = 4
    /\ _rehashPolicy = DefaultRehashPolicy

====
